---- MODULE Spec2Model ----
(***************************************************************************)
(* Authentication / authorization core of the quotes API: the user store   *)
(* (UsersService), credential validation and token issuance (AuthService), *)
(* the local-credential gate (LocalStrategy), the global bearer-token gate *)
(* (JwtAuthGuard + JwtStrategy), and the quotes handlers behind the gate.   *)
(***************************************************************************)
EXTENDS Integers, Sequences, FiniteSets, TLC

VARIABLES
  now,          \* wall clock, in seconds (what the token library reads)
  jwtSecretEnv, \* process.env.JWT_SECRET: {} when unset, {s} when set to s
  users,        \* rows of the user table
  nextUserId,   \* number of user ids generated so far + 1
  quotes,       \* rows of the quote table
  nextQuoteId,  \* autoincrement counter of the quote table
  wallet,       \* the access token the client holds: the last one a login returned
  reqs          \* per request slot: position in the pipeline and request context

vars == <<now, jwtSecretEnv, users, nextUserId, quotes, nextQuoteId, wallet, reqs>>

----------------------------------------------------------------------------
(* Bounds of the model *)

MaxTicks == 3
MaxUsers == 2
MaxQuotes == 1

Requests == {"r1"}
UserNames == {"alice", "bob"}
Passwords == {"pw1", "pw2"}
Salts == {"saltA"}
Texts == {"t1"}
UpdateTexts == {"t2"}
OtherKeys == {"attacker-key"}

(* Program constants *)

TTL == 60
BcryptRounds == 10
DefaultSecret == "YOUR_SECRET_KEY"

\* the clock is observed every half TTL
TickStep == TTL \div 2

(* Optional values: {} is undefined/null, {x} is the value x *)

None == {}
Some(x) == {x}
The(s) == CHOOSE x \in s : TRUE

Omit(rec, key) == [f \in DOMAIN rec \ {key} |-> rec[f]]

----------------------------------------------------------------------------
(* bcrypt: salted one-way hash.  The digest is an ideal one-way function of  *)
(* (key, salt, cost), the key being the first 72 bytes of the plaintext:    *)
(* two digests agree only when all three agree.                             *)

\* two passwords longer than 72 bytes that differ only after byte 72
LongPasswords == {"<72 x 'a'>b", "<72 x 'a'>c"}

\* the bytes of the plaintext that bcrypt uses: the first 72
KeyBytes(plain) == IF plain \in LongPasswords THEN "<72 x 'a'>" ELSE plain

bcrypt_hash(plain, rounds, salt) ==
  [alg |-> "2b", cost |-> rounds, salt |-> salt,
   digest |-> <<KeyBytes(plain), salt, rounds>>]

\* a column value written as the caller gave it: a string that is no bcrypt string
Raw(text) == [alg |-> "", text |-> text]

\* bcrypt.compare re-derives the digest with the salt and cost read from the
\* stored string; a stored string that is no bcrypt string never matches.
bcrypt_compare(plain, stored) ==
  /\ stored.alg = "2b"
  /\ bcrypt_hash(plain, stored.cost, stored.salt) = stored

----------------------------------------------------------------------------
(* Signed tokens (JwtModule / passport-jwt) *)

\* HMAC as an ideal MAC: x is the xor-mask of the output bytes against the
\* true MAC of msg under key (0 for an untouched signature).
Hmac(key, msg) == [key |-> key, msg |-> msg, x |-> 0]

FlipByte(sig) == [sig EXCEPT !.x = 1 - sig.x]

\* secret: process.env.JWT_SECRET || 'YOUR_SECRET_KEY' (unset and "" are falsy)
EnvOrDefault(env) == IF env = None \/ The(env) = "" THEN DefaultSecret ELSE The(env)

\* the secret JwtModule.register signs with
SignSecret == EnvOrDefault(jwtSecretEnv)

\* (variant: the strategy ignores the environment)
VerifySecret_hardcoded == DefaultSecret

\* the secretOrKey JwtStrategy verifies with
VerifySecret == EnvOrDefault(jwtSecretEnv)

\* jwtService.sign(payload) at time t with expiresIn = ttl seconds
sign(payload, secret, t, ttl) ==
  LET claims == [sub |-> payload.sub, username |-> payload.username,
                 iat |-> t, exp |-> t + ttl]
  IN  [wellFormed |-> TRUE, claims |-> claims, sig |-> Hmac(secret, claims)]

MalformedToken ==
  [wellFormed |-> FALSE,
   claims |-> [sub |-> 0, username |-> "", iat |-> 0, exp |-> 0],
   sig |-> Hmac("", [sub |-> 0, username |-> "", iat |-> 0, exp |-> 0])]

\* (variant: a token is still good at the very second it expires)
verify_lateExpiry(token, secret, t) ==
  IF ~token.wellFormed THEN [ok |-> FALSE, info |-> "jwt malformed"]
  ELSE IF token.sig # Hmac(secret, token.claims)
       THEN [ok |-> FALSE, info |-> "invalid signature"]
  ELSE IF t > token.claims.exp THEN [ok |-> FALSE, info |-> "jwt expired"]
  ELSE [ok |-> TRUE, info |-> "ok"]

\* (variant: the token is decoded, its signature never checked)
verify_decodeOnly(token, secret, t) ==
  IF ~token.wellFormed THEN [ok |-> FALSE, info |-> "jwt malformed"]
  ELSE IF t >= token.claims.exp THEN [ok |-> FALSE, info |-> "jwt expired"]
  ELSE [ok |-> TRUE, info |-> "ok"]

\* jwt verification as configured by JwtStrategy (ignoreExpiration: false):
\* structure, then signature, then expiry (expired when t >= exp)
verify(token, secret, t) ==
  IF ~token.wellFormed THEN [ok |-> FALSE, info |-> "jwt malformed"]
  ELSE IF token.sig # Hmac(secret, token.claims)
       THEN [ok |-> FALSE, info |-> "invalid signature"]
  ELSE IF t >= token.claims.exp THEN [ok |-> FALSE, info |-> "jwt expired"]
  ELSE [ok |-> TRUE, info |-> "ok"]

\* ExtractJwt.fromAuthHeaderAsBearerToken: hdr is None (no Authorization
\* header) or Some([scheme, cred])
fromAuthHeaderAsBearerToken(hdr) ==
  IF hdr # None /\ The(hdr).scheme = "Bearer" THEN Some(The(hdr).cred) ELSE None

\* JwtStrategy.validate(payload)
JwtStrategy_validate(payload) == [userId |-> payload.sub, username |-> payload.username]

\* (variant: the strategy looks the token's subject up and rejects a token
\* whose user is no longer stored)
JwtAuthenticate_checksUser(hdr, t) ==
  LET tok == fromAuthHeaderAsBearerToken(hdr) IN
  IF tok = None THEN [user |-> None, info |-> "No auth token"]
  ELSE LET v == verify(The(tok), VerifySecret, t) IN
       IF v.ok /\ \E u \in users : u.id = The(tok).claims.sub
       THEN [user |-> Some(JwtStrategy_validate(The(tok).claims)), info |-> "ok"]
       ELSE [user |-> None, info |-> IF v.ok THEN "No auth token" ELSE v.info]

\* passport-jwt authenticate: the user (or none) and passport's internal info
JwtAuthenticate(hdr, t) ==
  LET tok == fromAuthHeaderAsBearerToken(hdr) IN
  IF tok = None THEN [user |-> None, info |-> "No auth token"]
  ELSE LET v == verify(The(tok), VerifySecret, t) IN
       IF v.ok THEN [user |-> Some(JwtStrategy_validate(The(tok).claims)), info |-> "ok"]
       ELSE [user |-> None, info |-> v.info]

\* (variant: the response names the cause)
Unauthorized_withCause(info) ==
  [status |-> 401, body |-> Some([statusCode |-> 401, message |-> info])]

\* what AuthGuard.handleRequest throws when there is no user
Unauthorized(info) ==
  [status |-> 401, body |-> Some([statusCode |-> 401, message |-> "Unauthorized"])]

----------------------------------------------------------------------------
(* Route metadata (the @Public() marker) and the global gate *)

Undefined == None

\* Public = () => SetMetadata(IS_PUBLIC_KEY, true)
Public == Some(TRUE)

Route(name, handlerMeta, classMeta) ==
  [name |-> name, handlerMeta |-> handlerMeta, classMeta |-> classMeta]

\* (variant: the login handler without its @Public() marker)
LoginRoute_unmarked == Route("POST /auth/login", Undefined, Undefined)

LoginRoute == Route("POST /auth/login", Public, Undefined)

AppRoutes ==
  { Route("GET /quotes", Public, Undefined),
    Route("GET /quotes/:id", Public, Undefined),
    Route("POST /quotes", Undefined, Undefined),
    Route("PATCH /quotes", Undefined, Undefined),
    Route("DELETE /quotes/:id", Undefined, Undefined),
    LoginRoute }

\* (variant: the targets are consulted last to first, class before handler)
RECURSIVE getAllAndOverride_lastFirst(_)
getAllAndOverride_lastFirst(metas) ==
  IF metas = <<>> THEN Undefined
  ELSE IF metas[Len(metas)] # Undefined THEN metas[Len(metas)]
  ELSE getAllAndOverride_lastFirst(SubSeq(metas, 1, Len(metas) - 1))

\* reflector.getAllAndOverride(key, targets): the first target that has the key
RECURSIVE getAllAndOverride(_)
getAllAndOverride(metas) ==
  IF metas = <<>> THEN Undefined
  ELSE IF Head(metas) # Undefined THEN Head(metas)
  ELSE getAllAndOverride(Tail(metas))

\* (variant: a public route still authenticates a request that brings a header)
canActivate_checkWhenPresent(route, hdr, t) ==
  LET isPublic == getAllAndOverride(<<route.handlerMeta, route.classMeta>>)
      a == JwtAuthenticate(hdr, t)
  IN  IF isPublic = Some(TRUE) /\ hdr = None
      THEN [admit |-> TRUE, user |-> None, info |-> "public"]
      ELSE IF isPublic = Some(TRUE)
      THEN [admit |-> TRUE, user |-> a.user, info |-> "public"]
      ELSE [admit |-> a.user # None, user |-> a.user, info |-> a.info]

\* (variant: only an explicit false marker protects a route)
canActivate_allowByDefault(route, hdr, t) ==
  LET isPublic == getAllAndOverride(<<route.handlerMeta, route.classMeta>>) IN
  IF isPublic # Some(FALSE) THEN [admit |-> TRUE, user |-> None, info |-> "public"]
  ELSE LET a == JwtAuthenticate(hdr, t) IN
       [admit |-> a.user # None, user |-> a.user, info |-> a.info]

\* JwtAuthGuard.canActivate: admit, with the identity attached to the request
canActivate(route, hdr, t) ==
  LET isPublic == getAllAndOverride(<<route.handlerMeta, route.classMeta>>) IN
  IF isPublic = Some(TRUE) THEN [admit |-> TRUE, user |-> None, info |-> "public"]
  ELSE LET a == JwtAuthenticate(hdr, t) IN
       [admit |-> a.user # None, user |-> a.user, info |-> a.info]

----------------------------------------------------------------------------
(* User store (UsersService over the user table) *)

Email(n) == IF n = "alice" THEN "alice@example.com" ELSE "bob@example.com"

\* the CreateUserDto values a caller submits
PasswordOf(n) == IF n = "alice" THEN "pw1" ELSE "pw2"

CreateUserDtos ==
  { [userName |-> n, password |-> PasswordOf(n), fName |-> "F", lName |-> "L",
     email |-> Email(n)] : n \in UserNames }

\* userRepository.findOneBy({ userName })
findByUsername(userName) ==
  IF \E u \in users : u.userName = userName
  THEN Some(CHOOSE u \in users : u.userName = userName)
  ELSE None

\* userRepository.findOneBy({ id })
findOne(id) ==
  IF \E u \in users : u.id = id THEN Some(CHOOSE u \in users : u.id = id) ELSE None

\* (variant: the dto is saved as it came, the password not hashed)
NewUser_plain(dto, salt) ==
  [id |-> nextUserId, userName |-> dto.userName, password |-> Raw(dto.password),
   fName |-> dto.fName, lName |-> dto.lName, email |-> dto.email]

\* the row UsersService.create saves: the dto with the password replaced by
\* its hash, under a freshly generated id
NewUser(dto, salt) ==
  [id |-> nextUserId, userName |-> dto.userName,
   password |-> bcrypt_hash(dto.password, BcryptRounds, salt),
   fName |-> dto.fName, lName |-> dto.lName, email |-> dto.email]

\* what UsersService.create returns: the saved row without its password
safeUser(newUser) == Omit(newUser, "password")

\* UsersService.create; userName and email are unique columns, so a save that
\* repeats one fails and leaves the table as it was
create(dto, salt) ==
  /\ nextUserId <= MaxUsers
  /\ \A u \in users : u.userName # dto.userName /\ u.email # dto.email
  /\ users' = users \cup {NewUser(dto, salt)}
  /\ nextUserId' = nextUserId + 1
  /\ UNCHANGED <<now, jwtSecretEnv, quotes, nextQuoteId, wallet, reqs>>

\* UsersService.remove
remove(id) ==
  /\ findOne(id) # None
  /\ users' = users \ findOne(id)
  /\ UNCHANGED <<now, jwtSecretEnv, nextUserId, quotes, nextQuoteId, wallet, reqs>>

\* the UpdateUserDto values a caller submits: a new password
UpdateUserDtos == { [password |-> p] : p \in Passwords }

\* userRepository.update(id, updateUserDto): the columns the dto carries are
\* written as they are given
UpdatedUsers(id, dto) ==
  { IF u.id = id
    THEN [f \in DOMAIN u |->
            IF f \in DOMAIN dto
            THEN (IF f = "password" THEN Raw(dto[f]) ELSE dto[f])
            ELSE u[f]]
    ELSE u : u \in users }

\* UsersService.update
update(id, dto) ==
  /\ users' = UpdatedUsers(id, dto)
  /\ UNCHANGED <<now, jwtSecretEnv, nextUserId, quotes, nextQuoteId, wallet, reqs>>

----------------------------------------------------------------------------
(* AuthService *)

\* (variant: the password is never compared)
validateUser_skipCompare(found, pass) ==
  IF found = None THEN None ELSE Some(Omit(The(found), "password"))

\* (variant: the row is returned as it is stored)
validateUser_keepPassword(found, pass) ==
  IF found = None THEN None
  ELSE IF ~bcrypt_compare(pass, The(found).password) THEN None
  ELSE found

\* AuthService.validateUser after the lookup returned `found`: null, or the
\* row without its password
validateUser(found, pass) ==
  IF found = None THEN None
  ELSE IF ~bcrypt_compare(pass, The(found).password) THEN None
  ELSE Some(Omit(The(found), "password"))

\* the payload AuthService.login builds
LoginPayload(user) == [username |-> user.userName, sub |-> user.id]

\* AuthService.login at time t
login(user, t) == [access_token |-> sign(LoginPayload(user), SignSecret, t, TTL)]

----------------------------------------------------------------------------
(* Requests *)

NoRoute == Route("", Undefined, Undefined)

IdleReq ==
  [pc |-> "idle", route |-> NoRoute, hdr |-> None, body |-> None,
   found |-> None, user |-> None, info |-> "", arg |-> None, err |-> None,
   resp |-> None]

\* Authorization headers a client can send: none, a non-bearer scheme, a bearer
\* string that is no token, a token it was given, that token with a byte of the
\* signature flipped or with its expiry pushed back, and tokens it signs
\* itself under a key of its own or under the published default secret
Bearer(tok) == Some([scheme |-> "Bearer", cred |-> tok])

ForgedTokens ==
  { sign([sub |-> 1, username |-> "alice"], k, now, TTL) : k \in OtherKeys \cup {DefaultSecret} }

Headers ==
  {None, Some([scheme |-> "Basic", cred |-> MalformedToken]), Bearer(MalformedToken)}
  \cup { Bearer(t) : t \in wallet }
  \cup { Bearer([t EXCEPT !.sig = FlipByte(t.sig)]) : t \in wallet }
  \cup { Bearer([t EXCEPT !.claims.exp = t.claims.exp + TTL]) : t \in wallet }
  \cup { Bearer(t) : t \in ForgedTokens }

\* on the public routes: no header, an invalid one, the token held
PublicRouteHeaders == {None, Bearer(MalformedToken)} \cup { Bearer(t) : t \in wallet }

HeadersFor(route) == IF route.handlerMeta = Public THEN PublicRouteHeaders ELSE Headers

\* login bodies: username and password present, or missing
Bodies ==
  {None}
  \cup { Some([username |-> n, password |-> p]) : n \in UserNames, p \in Passwords }
  \cup { Some([username |-> "mallory", password |-> "pw1"]) }

----------------------------------------------------------------------------
(* Quotes (QuotesService over the quote table) *)

\* ids a client names: of a row that may exist, and one past the last
QuoteIdInputs == 1 .. (MaxQuotes + 1)

\* Partial<Quote> bodies of PATCH /quotes
UpdateBodies ==
  { [id |-> i, quote |-> q] :
      i \in {None, Some(0)} \cup { Some(n) : n \in QuoteIdInputs }, q \in {None} \cup { Some(t) : t \in Texts } }

Ok(status, value) == [status |-> status, body |-> Some(value)]

NotFound(id) ==
  [status |-> 404, body |-> Some([statusCode |-> 404, message |-> <<"Quote with", id, "not found">>])]

\* a plain Error escaping a handler: the framework's 500 response
InternalServerError ==
  [status |-> 500, body |-> Some([statusCode |-> 500, message |-> "Internal server error"])]

\* quoteRepository.findOne({ where: { id } })
findQuote(id) ==
  IF \E q \in quotes : q.id = id THEN Some(CHOOSE q \in quotes : q.id = id) ELSE None

\* (variant: the missing row is returned as it is, null)
getQuoteById_returnsNull(id) ==
  IF findQuote(id) = None THEN [status |-> 200, body |-> None] ELSE Ok(200, The(findQuote(id)))

\* QuotesService.getQuoteById as the response it leads to
getQuoteById(id) ==
  IF findQuote(id) = None THEN NotFound(id) ELSE Ok(200, The(findQuote(id)))

\* quoteRepository.update(id, body): the fields the body carries overwrite the row
UpdatedQuotes(id, body) ==
  { IF q.id = id /\ body.quote # None THEN [q EXCEPT !.quote = The(body.quote)] ELSE q :
      q \in quotes }

----------------------------------------------------------------------------
(* The request pipeline *)

Rest == <<now, jwtSecretEnv, users, nextUserId, quotes, nextQuoteId, wallet>>

\* the response is written; the guards' and handler's locals are gone
Finish(r, resp) ==
  reqs' = [reqs EXCEPT ![r].pc = "done", ![r].resp = Some(resp), ![r].hdr = None,
                       ![r].body = None, ![r].found = None, ![r].arg = None]

\* a request arrives and the global JwtAuthGuard decides
Arrive(r, route, hdr) ==
  /\ reqs[r].pc = "idle"
  /\ (route.name = "POST /quotes") => nextQuoteId <= MaxQuotes
  /\ LET g == canActivate(route, hdr, now)
         fresh == [IdleReq EXCEPT !.route = route, !.hdr = hdr, !.info = g.info,
                                  !.user = g.user]
     IN  reqs' = [reqs EXCEPT ![r] =
                    IF ~g.admit
                    THEN [fresh EXCEPT !.pc = "done", !.resp = Some(Unauthorized(g.info))]
                    ELSE [fresh EXCEPT !.pc = IF route = LoginRoute THEN "local" ELSE "handler"]]
  /\ UNCHANGED Rest

\* AuthGuard('local'): passport-local takes username and password from the
\* body (401 when one is missing); LocalStrategy.validate calls validateUser,
\* which looks the user up and suspends on the hash comparison
LocalAuthGuard(r, body) ==
  /\ reqs[r].pc = "local"
  /\ IF body = None
     THEN reqs' = [reqs EXCEPT ![r].pc = "done", ![r].hdr = None,
                               ![r].info = "Missing credentials",
                               ![r].resp = Some(Unauthorized("Missing credentials"))]
     ELSE reqs' = [reqs EXCEPT ![r].pc = "compare", ![r].hdr = None, ![r].body = body,
                               ![r].found = findByUsername(The(body).username)]
  /\ UNCHANGED Rest

\* (variant: LocalStrategy.validate catches the failure and answers as for null)
LocalLookupFails_asInvalid(r, body) ==
  /\ reqs[r].pc = "local"
  /\ body # None
  /\ reqs' = [reqs EXCEPT ![r].pc = "done", ![r].hdr = None, ![r].info = "error",
                          ![r].resp = Some(Unauthorized("Unauthorized"))]
  /\ UNCHANGED Rest

\* the lookup fails (store unavailable): the error is no UnauthorizedException
\* and handleRequest rethrows it
LocalLookupFails(r, body) ==
  /\ reqs[r].pc = "local"
  /\ body # None
  /\ reqs' = [reqs EXCEPT ![r].pc = "done", ![r].hdr = None, ![r].info = "error",
                          ![r].resp = Some(InternalServerError)]
  /\ UNCHANGED Rest

\* (variant: validateUser strips the password from the entity it was given and
\* saves it)
LocalValidate_blanksPassword(r) ==
  /\ reqs[r].pc = "compare"
  /\ LET v == validateUser(reqs[r].found, The(reqs[r].body).password) IN
     IF v = None
     THEN /\ reqs' = [reqs EXCEPT ![r].pc = "done", ![r].info = "Unauthorized",
                                  ![r].resp = Some(Unauthorized("Unauthorized"))]
          /\ UNCHANGED users
     ELSE /\ reqs' = [reqs EXCEPT ![r].pc = "handler", ![r].user = v, ![r].info = "ok"]
          /\ users' = { IF u.id = The(v).id THEN [u EXCEPT !.password = Raw("")] ELSE u :
                          u \in users }
  /\ UNCHANGED <<now, jwtSecretEnv, nextUserId, quotes, nextQuoteId, wallet>>

\* validateUser resumes with the comparison's result; LocalStrategy.validate
\* throws UnauthorizedException on null, or returns the user, which becomes
\* req.user
LocalValidate(r) ==
  /\ reqs[r].pc = "compare"
  /\ LET v == validateUser(reqs[r].found, The(reqs[r].body).password) IN
     IF v = None
     THEN reqs' = [reqs EXCEPT ![r].pc = "done", ![r].info = "Unauthorized",
                               ![r].resp = Some(Unauthorized("Unauthorized"))]
     ELSE reqs' = [reqs EXCEPT ![r].pc = "handler", ![r].user = v, ![r].info = "ok"]
  /\ UNCHANGED Rest

\* (variant: the validated user is kept in a field of the singleton service,
\* where the login of another request in flight finds it)
LoginHandler_sharedUser(r) ==
  /\ reqs[r].pc = "handler"
  /\ reqs[r].route = LoginRoute
  /\ LET others == { x \in DOMAIN reqs \ {r} :
                       reqs[x].route = LoginRoute /\ reqs[x].user # None }
         user == IF others = {} THEN reqs[r].user ELSE reqs[CHOOSE x \in others : TRUE].user
         out == login(The(user), now)
     IN  /\ Finish(r, Ok(201, out))
         /\ wallet' = Some(out.access_token)
  /\ UNCHANGED <<now, jwtSecretEnv, users, nextUserId, quotes, nextQuoteId>>

\* AuthController.login
LoginHandler(r) ==
  /\ reqs[r].pc = "handler"
  /\ reqs[r].route = LoginRoute
  /\ LET out == login(The(reqs[r].user), now) IN
     /\ Finish(r, Ok(201, out))
     /\ wallet' = Some(out.access_token)
  /\ UNCHANGED <<now, jwtSecretEnv, users, nextUserId, quotes, nextQuoteId>>

\* QuotesController.getAllQuotes
getAllQuotes(r) ==
  /\ reqs[r].pc = "handler"
  /\ reqs[r].route.name = "GET /quotes"
  /\ Finish(r, Ok(200, quotes))
  /\ UNCHANGED Rest

\* QuotesController.getQuote
getQuote(r, id) ==
  /\ reqs[r].pc = "handler"
  /\ reqs[r].route.name = "GET /quotes/:id"
  /\ Finish(r, getQuoteById(id))
  /\ UNCHANGED Rest

\* QuotesController.createQuote
createQuote(r, author, quote) ==
  /\ reqs[r].pc = "handler"
  /\ reqs[r].route.name = "POST /quotes"
  /\ LET newQuote == [id |-> nextQuoteId, author |-> author, quote |-> quote] IN
     /\ quotes' = quotes \cup {newQuote}
     /\ nextQuoteId' = nextQuoteId + 1
     /\ Finish(r, Ok(201, newQuote))
  /\ UNCHANGED <<now, jwtSecretEnv, users, nextUserId, wallet>>

\* (variant: the id is not checked; without id the update has no criteria and
\* touches every row before it fails)
updateQuote_noIdCheck(r, body) ==
  /\ reqs[r].pc = "handler"
  /\ reqs[r].route.name = "PATCH /quotes"
  /\ IF body.id = None \/ The(body.id) = 0
     THEN /\ quotes' = { IF body.quote # None THEN [q EXCEPT !.quote = The(body.quote)] ELSE q :
                           q \in quotes }
          /\ reqs' = [reqs EXCEPT ![r].pc = "done", ![r].resp = Some(InternalServerError),
                                  ![r].hdr = None, ![r].err = Some("Something went wrong")]
     ELSE /\ quotes' = UpdatedQuotes(The(body.id), body)
          /\ reqs' = [reqs EXCEPT ![r].pc = "reread", ![r].hdr = None, ![r].arg = body.id]
  /\ UNCHANGED <<now, jwtSecretEnv, users, nextUserId, nextQuoteId, wallet>>

\* QuotesController.updateQuote, up to the repository update; a falsy id
\* (missing, 0) throws Error('Missing id, update not possible')
updateQuote(r, body) ==
  /\ reqs[r].pc = "handler"
  /\ reqs[r].route.name = "PATCH /quotes"
  /\ IF body.id = None \/ The(body.id) = 0
     THEN /\ reqs' = [reqs EXCEPT ![r].pc = "done", ![r].resp = Some(InternalServerError),
                                  ![r].hdr = None,
                                  ![r].err = Some("Missing id, update not possible")]
          /\ UNCHANGED quotes
     ELSE /\ quotes' = UpdatedQuotes(The(body.id), body)
          /\ reqs' = [reqs EXCEPT ![r].pc = "reread", ![r].hdr = None, ![r].arg = body.id]
  /\ UNCHANGED <<now, jwtSecretEnv, users, nextUserId, nextQuoteId, wallet>>

\* QuotesService.updateQuote resumes: return this.getQuoteById(body.id)
updateQuoteReturn(r) ==
  /\ reqs[r].pc = "reread"
  /\ Finish(r, getQuoteById(The(reqs[r].arg)))
  /\ UNCHANGED Rest

\* QuotesController.deleteQuote
deleteQuote(r, id) ==
  /\ reqs[r].pc = "handler"
  /\ reqs[r].route.name = "DELETE /quotes/:id"
  /\ quotes' = { q \in quotes : q.id # id }
  /\ Finish(r, Ok(200, [affected |-> Cardinality({ q \in quotes : q.id = id })]))
  /\ UNCHANGED <<now, jwtSecretEnv, users, nextUserId, nextQuoteId, wallet>>

\* the response has been sent and the request context is dropped
Complete(r) ==
  /\ reqs[r].pc = "done"
  /\ reqs' = [reqs EXCEPT ![r] = IdleReq]
  /\ UNCHANGED Rest

\* time passes
Tick(d) ==
  /\ now < MaxTicks * d
  /\ now' = now + d
  /\ UNCHANGED <<jwtSecretEnv, users, nextUserId, quotes, nextQuoteId, wallet, reqs>>

----------------------------------------------------------------------------

Init ==
  /\ now = 0
  /\ jwtSecretEnv \in {None, Some("prod-secret")}
  /\ users = {}
  /\ nextUserId = 1
  /\ quotes = {}
  /\ nextQuoteId = 1
  /\ wallet = None
  /\ reqs = [r \in Requests |-> IdleReq]

Next ==
  \/ Tick(TickStep)
  \/ \E dto \in CreateUserDtos, salt \in Salts : create(dto, salt)
  \/ \E id \in 1 .. MaxUsers : remove(id)
  \/ \E r \in Requests, route \in AppRoutes :
       \E hdr \in HeadersFor(route) : Arrive(r, route, hdr)
  \/ \E r \in Requests : Complete(r)
  \/ \E r \in Requests, body \in Bodies : LocalAuthGuard(r, body)
  \/ \E r \in Requests, body \in Bodies : LocalLookupFails(r, body)
  \/ \E r \in Requests : LocalValidate(r)
  \/ \E r \in Requests : LoginHandler(r)
  \/ \E r \in Requests : getAllQuotes(r)
  \/ \E r \in Requests, id \in QuoteIdInputs : getQuote(r, id)
  \/ \E r \in Requests, a \in {"author"}, q \in Texts : createQuote(r, a, q)
  \/ \E r \in Requests, body \in UpdateBodies : updateQuote(r, body)
  \/ \E r \in Requests : updateQuoteReturn(r)
  \/ \E r \in Requests, id \in QuoteIdInputs : deleteQuote(r, id)

Spec == Init /\ [][Next]_vars

----------------------------------------------------------------------------
(* The gate alone, over every combination of handler and class markers *)

Metas == {Undefined, Some(TRUE), Some(FALSE)}

ProbeRoutes == { Route("GET /probe", h, c) : h \in Metas, c \in Metas }

\* a handler behind the gate that only answers
ProbeHandler(r) ==
  /\ reqs[r].pc = "handler"
  /\ reqs[r].route.name = "GET /probe"
  /\ Finish(r, Ok(200, [ok |-> TRUE]))
  /\ UNCHANGED Rest

\* the client may hold a token a login returned at time 0
InitGate ==
  /\ now = 0
  /\ jwtSecretEnv \in {None, Some("prod-secret")}
  /\ users = {}
  /\ nextUserId = 1
  /\ quotes = {}
  /\ nextQuoteId = 1
  /\ wallet \in {None, Some(sign([sub |-> 1, username |-> "alice"], SignSecret, 0, TTL))}
  /\ reqs = [r \in Requests |-> IdleReq]

NextGate ==
  \/ Tick(TickStep)
  \/ \E r \in Requests, route \in ProbeRoutes, hdr \in Headers : Arrive(r, route, hdr)
  \/ \E r \in Requests : ProbeHandler(r)
  \/ \E r \in Requests : Complete(r)

SpecGate == InitGate /\ [][NextGate]_vars

----------------------------------------------------------------------------
(* The user store's life under authentication: users are created, updated    *)
(* and removed while logins and requests on a protected route go on          *)

UsersRoutes == {LoginRoute, Route("DELETE /quotes/:id", Undefined, Undefined)}

\* no header, or the token held
UsersHeaders == {None} \cup { Bearer(t) : t \in wallet }

NextUsers ==
  \/ Tick(TickStep)
  \/ \E dto \in CreateUserDtos, salt \in Salts : create(dto, salt)
  \/ \E id \in 1 .. MaxUsers, dto \in UpdateUserDtos : update(id, dto)
  \/ \E id \in 1 .. MaxUsers : remove(id)
  \/ \E r \in Requests, route \in UsersRoutes, hdr \in UsersHeaders : Arrive(r, route, hdr)
  \/ \E r \in Requests : Complete(r)
  \/ \E r \in Requests, body \in Bodies : LocalAuthGuard(r, body)
  \/ \E r \in Requests, body \in Bodies : LocalLookupFails(r, body)
  \/ \E r \in Requests : LocalValidate(r)
  \/ \E r \in Requests : LoginHandler(r)
  \/ \E r \in Requests, id \in QuoteIdInputs : deleteQuote(r, id)

SpecUsers == Init /\ [][NextUsers]_vars

----------------------------------------------------------------------------
(* Two requests in flight at once over a store that holds both users: each   *)
(* handler is an async function that suspends at the lookup and at the hash  *)
(* comparison, where the other request's steps interleave                    *)

Slots == {"r1", "r2"}

ConcRoutes ==
  {LoginRoute, Route("GET /quotes", Public, Undefined),
   Route("DELETE /quotes/:id", Undefined, Undefined)}

\* good credentials of either user, and a wrong password
ConcBodies ==
  { Some([username |-> n, password |-> PasswordOf(n)]) : n \in UserNames }
  \cup { Some([username |-> "alice", password |-> "pw2"]) }

\* the rows two successful creates leave
StoredUsers ==
  { [id |-> IF dto.userName = "alice" THEN 1 ELSE 2, userName |-> dto.userName,
     password |-> bcrypt_hash(dto.password, BcryptRounds, salt),
     fName |-> dto.fName, lName |-> dto.lName, email |-> dto.email] :
      dto \in CreateUserDtos, salt \in Salts }

InitConc ==
  /\ now = 0
  /\ jwtSecretEnv \in {None, Some("prod-secret")}
  /\ users = StoredUsers
  /\ nextUserId = 3
  /\ quotes = {}
  /\ nextQuoteId = 1
  /\ wallet \in {None, Some(sign([sub |-> 1, username |-> "alice"], SignSecret, 0, TTL))}
  /\ reqs = [r \in Slots |-> IdleReq]

NextConc ==
  \/ Tick(TickStep)
  \/ \E r \in Slots, route \in ConcRoutes, hdr \in UsersHeaders : Arrive(r, route, hdr)
  \/ \E r \in Slots : Complete(r)
  \/ \E r \in Slots, body \in ConcBodies : LocalAuthGuard(r, body)
  \/ \E r \in Slots : LocalValidate(r)
  \/ \E r \in Slots : LoginHandler(r)
  \/ \E r \in Slots : getAllQuotes(r)
  \/ \E r \in Slots, id \in QuoteIdInputs : deleteQuote(r, id)

SpecConc == InitConc /\ [][NextConc]_vars

----------------------------------------------------------------------------
(* Users created with any password the dto admits (a non-empty string of any *)
(* length), and logins against them                                         *)

AnyPasswordDtos ==
  CreateUserDtos
  \cup { [userName |-> "alice", password |-> p, fName |-> "F", lName |-> "L",
          email |-> Email("alice")] : p \in LongPasswords }

AnyPasswords == Passwords \cup LongPasswords

AnyPasswordBodies ==
  { Some([username |-> n, password |-> p]) : n \in UserNames, p \in AnyPasswords }

NextCreate ==
  \/ \E dto \in AnyPasswordDtos, salt \in Salts : create(dto, salt)
  \/ \E id \in 1 .. MaxUsers : remove(id)
  \/ \E r \in Requests : Arrive(r, LoginRoute, None)
  \/ \E r \in Requests, body \in AnyPasswordBodies : LocalAuthGuard(r, body)
  \/ \E r \in Requests : LocalValidate(r)
  \/ \E r \in Requests : LoginHandler(r)
  \/ \E r \in Requests : Complete(r)

SpecCreate == Init /\ [][NextCreate]_vars

----------------------------------------------------------------------------
(* The quotes handlers, two requests in flight, the client holding a token   *)
(* issued at time 0; updates carry a text other than the one created         *)

QuoteRoutes == { route \in AppRoutes : route # LoginRoute }

NewTextBodies ==
  { [id |-> i, quote |-> q] :
      i \in {None, Some(0)} \cup { Some(n) : n \in QuoteIdInputs },
      q \in {None} \cup { Some(t) : t \in UpdateTexts } }

InitQuotes ==
  /\ now = 0
  /\ jwtSecretEnv \in {None, Some("prod-secret")}
  /\ users = StoredUsers
  /\ nextUserId = 3
  /\ quotes = {}
  /\ nextQuoteId = 1
  /\ wallet = Some(sign([sub |-> 1, username |-> "alice"], SignSecret, 0, TTL))
  /\ reqs = [r \in Slots |-> IdleReq]

NextQuotes ==
  \/ \E r \in Slots, route \in QuoteRoutes, hdr \in UsersHeaders : Arrive(r, route, hdr)
  \/ \E r \in Slots : Complete(r)
  \/ \E r \in Slots : getAllQuotes(r)
  \/ \E r \in Slots, id \in QuoteIdInputs : getQuote(r, id)
  \/ \E r \in Slots, a \in {"author"}, q \in Texts : createQuote(r, a, q)
  \/ \E r \in Slots, body \in NewTextBodies : updateQuote(r, body)
  \/ \E r \in Slots : updateQuoteReturn(r)
  \/ \E r \in Slots, id \in QuoteIdInputs : deleteQuote(r, id)

SpecQuotes == InitQuotes /\ [][NextQuotes]_vars

----------------------------------------------------------------------------
(* Vocabulary of the properties *)

\* the route's effective public marker is true
MarkerTrue(route) ==
  \/ route.handlerMeta = Some(TRUE)
  \/ route.handlerMeta = Undefined /\ route.classMeta = Some(TRUE)

\* the header carries a bearer token that verification accepts at time t
BearerAccepted(hdr, t) ==
  /\ hdr # None
  /\ The(hdr).scheme = "Bearer"
  /\ verify(The(hdr).cred, VerifySecret, t).ok

\* the header carries a well-formed bearer token signed under the verification key
BearerSigned(hdr) ==
  /\ hdr # None
  /\ The(hdr).scheme = "Bearer"
  /\ The(hdr).cred.wellFormed
  /\ The(hdr).cred.sig = Hmac(VerifySecret, The(hdr).cred.claims)

TheUnauthorized ==
  [status |-> 401, body |-> Some([statusCode |-> 401, message |-> "Unauthorized"])]

GateFailures == {"No auth token", "jwt malformed", "invalid signature", "jwt expired"}

Status(q) == The(q.resp).status

\* the global gate turned the request away
GateRejected(q) == q.pc = "done" /\ q.info \in GateFailures

\* the request is past the global gate, its handler about to run or running
AtHandler(q) == q.pc \in {"handler", "reread"}

----------------------------------------------------------------------------
\* C1 -- Deny-by-default: the gate lets a request through only if the route's
\* effective public marker is true or the request carries a bearer token that
\* verification accepts at that moment; every other request ends in 401 with
\* no handler effect; the quote table changes only under a request that is
\* past the gate; a request on a route without marker that is at its handler
\* carries a validly signed token and an identity.
C1_DenyByDefault ==
  [][ /\ \A r \in Requests :
            (reqs[r].pc = "idle" /\ reqs'[r].pc # "idle") =>
              LET q == reqs'[r] IN
              IF MarkerTrue(q.route) \/ BearerAccepted(q.hdr, now)
              THEN q.pc \in {"local", "handler"}
              ELSE /\ q.pc = "done"
                   /\ Status(q) = 401
                   /\ quotes' = quotes /\ wallet' = wallet
      /\ \A r \in Requests :
            (AtHandler(reqs'[r]) /\ ~MarkerTrue(reqs'[r].route) /\ reqs'[r].pc = "handler") =>
              BearerSigned(reqs'[r].hdr) /\ reqs'[r].user # None
      /\ (quotes' # quotes) => \E r \in Requests : AtHandler(reqs[r])
    ]_vars

\* a request without Authorization header on POST /quotes was turned away
C1_Witness ==
  \E r \in Requests :
    /\ reqs[r].pc = "done"
    /\ reqs[r].route.name = "POST /quotes"
    /\ reqs[r].hdr = None
    /\ reqs[r].info = "No auth token"
    /\ Status(reqs[r]) = 401

----------------------------------------------------------------------------
\* C2 -- Marker precedence: when the handler carries a marker (true or false)
\* it alone decides whatever the class marker is; the class marker decides
\* only when the handler has none.  A route whose deciding marker is true is
\* passed without a token check and without identity; otherwise the token
\* check is enforced: the request is at its handler only with a validly signed
\* bearer token and the identity of its claims, and is turned away otherwise.
Deciding(route) ==
  IF route.handlerMeta # Undefined THEN route.handlerMeta ELSE route.classMeta

TokenCheckEnforced(q) ==
  /\ q.info \in GateFailures \cup {"ok"}
  /\ (q.info = "ok") <=> ~GateRejected(q)
  /\ GateRejected(q) =>
       /\ q.resp = Some(TheUnauthorized)
       /\ q.user = None
       /\ (q.info = "No auth token") <=> (q.hdr = None \/ The(q.hdr).scheme # "Bearer")
       /\ (q.info \in {"jwt malformed", "invalid signature"}) =>
            (The(q.hdr).scheme = "Bearer" /\ ~BearerSigned(q.hdr))
       /\ (q.info = "jwt expired") => BearerSigned(q.hdr)
  /\ (q.pc = "handler") =>
       /\ BearerSigned(q.hdr)
       /\ q.user = Some([userId |-> The(q.hdr).cred.claims.sub,
                         username |-> The(q.hdr).cred.claims.username])

C2_MarkerPrecedence ==
  \A r \in Requests :
    LET q == reqs[r] IN
    (q.pc # "idle") =>
      IF Deciding(q.route) = Some(TRUE)
      THEN q.info = "public" /\ q.user = None /\ ~GateRejected(q)
      ELSE TokenCheckEnforced(q)

\* handler marker false under class marker true: a request without token was
\* turned away
C2_Witness ==
  \E r \in Requests :
    /\ reqs[r].route.handlerMeta = Some(FALSE)
    /\ reqs[r].route.classMeta = Some(TRUE)
    /\ reqs[r].hdr = None
    /\ GateRejected(reqs[r])

\* handler marker true under class marker false: passed with an invalid header
C2_WitnessPublic ==
  \E r \in Requests :
    /\ reqs[r].route.handlerMeta = Some(TRUE)
    /\ reqs[r].route.classMeta = Some(FALSE)
    /\ reqs[r].hdr = Bearer(MalformedToken)
    /\ reqs[r].pc = "handler"

----------------------------------------------------------------------------
\* the password p is the one hashed into the row's password column
Matches(u, p) == \E salt \in Salts : u.password = bcrypt_hash(p, BcryptRounds, salt)

NoMarkerRoutes == { route \in AppRoutes : ~MarkerTrue(route) }

Identity(u) == [userId |-> u.id, username |-> u.userName]

\* C3 -- Login-then-access round trip: for every stored user and every
\* password matching the stored record, validateUser returns a user, login on
\* it returns an access_token, and that token as bearer on a protected route
\* at any time before its TTL has elapsed is admitted with the identity
\* {userId, username} of that user; the token of a 201 login response carries
\* the validated user's id and name, and the token the client holds is
\* admitted with the identity of its claims while it has not expired.
C3_LoginThenAccess ==
  /\ \A u \in users, p \in Passwords :
       Matches(u, p) =>
         LET v == validateUser(findByUsername(u.userName), p) IN
         /\ v # None
         /\ \A d \in {0, TickStep, TTL - 1}, route \in NoMarkerRoutes :
              LET g == canActivate(route, Bearer(login(The(v), now).access_token), now + d)
              IN  g.admit /\ g.user = Some(Identity(u))
  /\ \A r \in Requests :
       (reqs[r].route = LoginRoute /\ reqs[r].pc = "done" /\ Status(reqs[r]) = 201) =>
         LET tok == The(The(reqs[r].resp).body).access_token IN
         /\ tok.claims.sub = The(reqs[r].user).id
         /\ tok.claims.username = The(reqs[r].user).userName
  /\ \A t \in wallet, route \in NoMarkerRoutes :
       (now < t.claims.iat + TTL) =>
         LET g == canActivate(route, Bearer(t), now) IN
         g.admit /\ g.user = Some([userId |-> t.claims.sub, username |-> t.claims.username])

\* a request bearing the token a login returned is at the handler of a
\* protected route with the identity of a stored user, under a configured secret
C3_Witness ==
  \E r \in Requests, u \in users :
    /\ jwtSecretEnv # None
    /\ reqs[r].route \in NoMarkerRoutes
    /\ reqs[r].pc = "handler"
    /\ reqs[r].hdr = { [scheme |-> "Bearer", cred |-> t] : t \in wallet }
    /\ reqs[r].user = Some(Identity(u))

----------------------------------------------------------------------------
\* C4 -- validateUser returns null for every unknown username and for every
\* known username whose password does not match the stored hash, and the two
\* cases are the same value; a login request in either case ends in the one
\* 401 response without a user.
C4_NullOnBadCredentials ==
  /\ \A b \in Bodies \ {None} :
       LET found == findByUsername(The(b).username) IN
       (found = None \/ ~Matches(The(found), The(b).password)) =>
         validateUser(found, The(b).password) = None
  /\ \A r \in Requests :
       LET q == reqs[r] IN
       ( /\ q.route = LoginRoute
         /\ q.pc \in {"handler", "done"}
         /\ q.body # None
         /\ (q.found = None \/ ~Matches(The(q.found), The(q.body).password)) ) =>
         q.pc = "done" /\ q.resp = Some(TheUnauthorized) /\ q.user = None

\* a login with the wrong password of a known user ended in 401
C4_Witness ==
  \E r \in Requests :
    /\ reqs[r].route = LoginRoute
    /\ reqs[r].pc = "done"
    /\ reqs[r].body # None
    /\ reqs[r].found # None
    /\ ~Matches(The(reqs[r].found), The(reqs[r].body).password)
    /\ Status(reqs[r]) = 401

\* a login with an unknown username ended in 401
C4_WitnessUnknown ==
  \E r \in Requests :
    /\ reqs[r].route = LoginRoute
    /\ reqs[r].pc = "done"
    /\ reqs[r].body # None
    /\ reqs[r].found = None
    /\ Status(reqs[r]) = 401

----------------------------------------------------------------------------
\* C5 -- The stored password hash crosses the authentication boundary in no
\* value: the user validateUser returns is the row with exactly the password
\* field removed, the token payload login builds has the fields sub, username,
\* iat and exp only, the login response has the field access_token only, and
\* the identity the gate attaches has the fields userId and username only.
C5_NoPasswordCrossing ==
  /\ \A u \in users, p \in Passwords :
       LET v == validateUser(Some(u), p) IN
       (v # None) =>
         /\ DOMAIN The(v) = DOMAIN u \ {"password"}
         /\ \A f \in DOMAIN The(v) : The(v)[f] = u[f]
         /\ DOMAIN login(The(v), now) = {"access_token"}
         /\ DOMAIN login(The(v), now).access_token.claims = {"sub", "username", "iat", "exp"}
  /\ \A r \in Requests :
       LET q == reqs[r] IN
       /\ (q.user # None) => "password" \notin DOMAIN The(q.user)
       /\ (q.route = LoginRoute /\ q.pc = "handler") =>
            /\ q.found # None
            /\ DOMAIN The(q.user) = DOMAIN The(q.found) \ {"password"}
            /\ \A f \in DOMAIN The(q.user) : The(q.user)[f] = The(q.found)[f]
       /\ (q.route # LoginRoute /\ q.user # None) =>
            DOMAIN The(q.user) = {"userId", "username"}
  /\ \A t \in wallet : DOMAIN t.claims = {"sub", "username", "iat", "exp"}

\* a login request holds the validated user and is about to sign the token
C5_Witness ==
  \E r \in Requests :
    /\ reqs[r].route = LoginRoute
    /\ reqs[r].pc = "handler"
    /\ reqs[r].user # None
    /\ reqs[r].found # None

----------------------------------------------------------------------------
\* the state part of C6: the issued token's expiry, its rejection after it, ttl = 0
C6_ExpiryState ==
  /\ \A t \in wallet :
       /\ t.claims.exp = t.claims.iat + 60
       /\ (now > t.claims.exp) =>
            /\ ~verify(t, VerifySecret, now).ok
            /\ \A route \in NoMarkerRoutes : ~canActivate(route, Bearer(t), now).admit
  /\ \A n \in UserNames, id \in 1 .. MaxUsers :
       ~verify(sign([sub |-> id, username |-> n], SignSecret, now, 0), VerifySecret, now).ok

\* C6 -- Expiry: a token login issued expires TTL = 60 seconds after its
\* issue time and verification rejects it at every time strictly after that;
\* a token signed with ttl = 0 is rejected at once; a request bearing an
\* expired token on a protected route is turned away; and a token once
\* rejected for expiry is rejected for expiry at every later time.
C6_Expiry ==
  /\ []C6_ExpiryState
  /\ [][ /\ \A t \in wallet :
              (verify(t, VerifySecret, now).info = "jwt expired") =>
                (verify(t, VerifySecret, now').info = "jwt expired")
         /\ \A r \in Requests :
              ( /\ reqs[r].pc = "idle" /\ reqs'[r].pc # "idle"
                /\ ~MarkerTrue(reqs'[r].route)
                /\ BearerSigned(reqs'[r].hdr)
                /\ now >= The(reqs'[r].hdr).cred.claims.exp ) =>
                (GateRejected(reqs'[r]) /\ reqs'[r].info = "jwt expired")
       ]_vars

\* a request bearing the token a login returned was turned away strictly
\* after the token's expiry
C6_Witness ==
  \E r \in Requests, t \in wallet :
    /\ now > t.claims.exp
    /\ reqs[r].hdr = Bearer(t)
    /\ GateRejected(reqs[r])
    /\ reqs[r].info = "jwt expired"

----------------------------------------------------------------------------
\* C7 -- Tampering: a token that differs from a signed token in its signature
\* segment, or that was signed under another secret, is rejected by
\* verification, and a request bearing a well-formed token whose signature is
\* not the one the verification key gives its claims is never admitted on a
\* protected route.
C7_Tampering ==
  /\ \A t \in wallet :
       ~verify([t EXCEPT !.sig = FlipByte(t.sig)], VerifySecret, now).ok
  /\ \A k \in OtherKeys \cup {DefaultSecret}, n \in UserNames :
       (k # VerifySecret) =>
         ~verify(sign([sub |-> 1, username |-> n], k, now, TTL), VerifySecret, now).ok
  /\ \A r \in Requests :
       LET q == reqs[r] IN
       ( /\ q.hdr # None
         /\ The(q.hdr).scheme = "Bearer"
         /\ The(q.hdr).cred.wellFormed
         /\ ~BearerSigned(q.hdr)
         /\ ~MarkerTrue(q.route) ) =>
         GateRejected(q) /\ q.resp = Some(TheUnauthorized) /\ q.user = None

\* a request bearing an unexpired issued token with a flipped signature byte
\* was turned away
C7_Witness ==
  \E r \in Requests, t \in wallet :
    /\ now < t.claims.exp
    /\ reqs[r].hdr = Bearer([t EXCEPT !.sig = FlipByte(t.sig)])
    /\ GateRejected(reqs[r])
    /\ reqs[r].info = "invalid signature"

----------------------------------------------------------------------------
\* C8 -- One 401 for every token failure: whatever the cause (header absent,
\* scheme not Bearer, malformed token, expired token, bad signature), the
\* response of a request the gate turns away is the same Unauthorized
\* response.
C8_UniformUnauthorized ==
  /\ \A r \in Requests : GateRejected(reqs[r]) => reqs[r].resp = Some(TheUnauthorized)
  /\ \A route \in NoMarkerRoutes, hdr \in Headers :
       LET g == canActivate(route, hdr, now) IN
       (~g.admit) => (g.info \in GateFailures /\ Unauthorized(g.info) = TheUnauthorized)

\* a request was turned away because its token had expired
C8_Witness ==
  \E r \in Requests :
    /\ GateRejected(reqs[r])
    /\ reqs[r].info = "jwt expired"
    /\ reqs[r].resp = Some(TheUnauthorized)

\* the other causes occur as well
C8_WitnessAbsent == \E r \in Requests : GateRejected(reqs[r]) /\ reqs[r].hdr = None
C8_WitnessScheme ==
  \E r \in Requests :
    GateRejected(reqs[r]) /\ reqs[r].hdr # None /\ The(reqs[r].hdr).scheme = "Basic"
C8_WitnessMalformed == \E r \in Requests : GateRejected(reqs[r]) /\ reqs[r].info = "jwt malformed"
C8_WitnessSignature ==
  \E r \in Requests : GateRejected(reqs[r]) /\ reqs[r].info = "invalid signature"

----------------------------------------------------------------------------
\* C9 -- Public bypass: on a route whose effective public marker is true (list
\* quotes, get quote by id, login) the gate admits every request, whatever its
\* Authorization header, without a token check, and attaches no identity.
C9_PublicBypass ==
  /\ \A route \in AppRoutes, hdr \in Headers :
       MarkerTrue(route) =>
         canActivate(route, hdr, now) = [admit |-> TRUE, user |-> None, info |-> "public"]
  /\ { route.name : route \in { x \in AppRoutes : MarkerTrue(x) } }
       = {"GET /quotes", "GET /quotes/:id", "POST /auth/login"}
  /\ \A r \in Requests :
       LET q == reqs[r] IN
       (q.pc # "idle" /\ MarkerTrue(q.route)) =>
         /\ ~GateRejected(q)
         /\ (q.pc = "local" \/ q.route # LoginRoute) => (q.user = None)
         /\ (q.pc \in {"local", "handler"} /\ q.route # LoginRoute) => (q.info = "public")

\* a request bearing a valid token is at the handler of a public route and has
\* no identity
C9_Witness ==
  \E r \in Requests, t \in wallet :
    /\ reqs[r].route.name = "GET /quotes"
    /\ reqs[r].pc = "handler"
    /\ reqs[r].hdr = Bearer(t)
    /\ verify(t, VerifySecret, now).ok
    /\ reqs[r].user = None

\* and one bearing an invalid header
C9_WitnessInvalid ==
  \E r \in Requests :
    /\ reqs[r].route.name = "GET /quotes/:id"
    /\ reqs[r].pc = "handler"
    /\ reqs[r].hdr = Bearer(MalformedToken)

----------------------------------------------------------------------------
\* C10 -- Login ordering: a request on POST /auth/login passes the JWT gate
\* whatever its header and goes to the local-credential gate; it reaches the
\* login handler only from the password comparison of that same request, with
\* the looked-up row matching the submitted username and password and req.user
\* that row without its password; when validateUser returns null it ends in 401
\* and no token is issued; a token is issued only by a login handler that holds
\* a validated user, for that user.
C10_LoginOrdering ==
  [][ /\ \A r \in Requests :
           LET q == reqs[r]  n == reqs'[r] IN
           /\ (q.pc = "idle" /\ n.pc # "idle" /\ n.route.name = "POST /auth/login") =>
                (n.pc = "local" /\ n.user = None)
           /\ (n.route.name = "POST /auth/login" /\ n.pc = "handler" /\ q.pc # "handler") =>
                /\ q.pc = "compare"
                /\ q.found # None
                /\ The(q.found).userName = The(q.body).username
                /\ Matches(The(q.found), The(q.body).password)
                /\ n.user = Some(Omit(The(q.found), "password"))
           /\ (q.pc = "compare" /\ n # q /\
                 (q.found = None \/ ~Matches(The(q.found), The(q.body).password))) =>
                (n.pc = "done" /\ Status(n) = 401 /\ wallet' = wallet)
           /\ (q.pc = "local" /\ n.pc = "done") => (Status(n) \in {401, 500} /\ wallet' = wallet)
      /\ (wallet' # wallet) =>
           \E r \in Requests :
             /\ reqs[r].route.name = "POST /auth/login"
             /\ reqs[r].pc = "handler"
             /\ reqs[r].user # None
             /\ reqs'[r].pc = "done"
             /\ Status(reqs'[r]) = 201
             /\ wallet' = Some(The(The(reqs'[r].resp).body).access_token)
             /\ The(wallet').claims.sub = The(reqs[r].user).id
             /\ The(wallet').claims.username = The(reqs[r].user).userName
    ]_vars

\* a login request was answered 201 with the token the client now holds
C10_Witness ==
  \E r \in Requests :
    /\ reqs[r].route.name = "POST /auth/login"
    /\ reqs[r].pc = "done"
    /\ Status(reqs[r]) = 201
    /\ reqs[r].user # None
    /\ wallet = Some(The(The(reqs[r].resp).body).access_token)

\* a login request with bad credentials was answered 401 while no token exists
C10_WitnessRejected ==
  \E r \in Requests :
    /\ reqs[r].route.name = "POST /auth/login"
    /\ reqs[r].pc = "done"
    /\ reqs[r].info = "Unauthorized"
    /\ Status(reqs[r]) = 401
    /\ wallet = None

----------------------------------------------------------------------------
\* C11 -- Store unavailable: when the user lookup of validateUser fails, the
\* login request ends in a server error (500), which is not the 401 of invalid
\* credentials, validateUser yields no user, and no token is issued; a login
\* request that ends in 401 is one whose credentials were missing or whose
\* lookup answered and validateUser returned null.
C11_StoreUnavailable ==
  [][ \A r \in Requests :
        LET q == reqs[r]  n == reqs'[r] IN
        /\ (q.pc = "local" /\ n.info = "error") =>
             /\ n.pc = "done"
             /\ n.resp = Some(InternalServerError)
             /\ Status(n) \in 500 .. 599
             /\ n.resp # Some(TheUnauthorized)
             /\ n.user = None
             /\ DOMAIN The(The(n.resp).body) = {"statusCode", "message"}
             /\ wallet' = wallet
        /\ (n.route = LoginRoute /\ q.pc # "done" /\ n.pc = "done" /\ Status(n) = 401) =>
             \/ q.pc = "local" /\ n.info = "Missing credentials"
             \/ /\ q.pc = "compare" /\ n.info = "Unauthorized"
                /\ validateUser(q.found, The(q.body).password) = None
    ]_vars

\* a login request whose lookup failed was answered 500 while a user with the
\* submitted credentials is stored
C11_Witness ==
  \E r \in Requests :
    /\ reqs[r].route = LoginRoute
    /\ reqs[r].pc = "done"
    /\ reqs[r].info = "error"
    /\ Status(reqs[r]) = 500
    /\ users # {}

----------------------------------------------------------------------------
\* the configured secret is unset, empty or the placeholder
MisconfiguredSecret ==
  jwtSecretEnv = None \/ The(jwtSecretEnv) \in {"", DefaultSecret}

\* C12 -- Misconfigured secret: with the secret unset, empty or the
\* placeholder the system serves nothing: no token it issued is signed under
\* the known default secret, and no request is past the token check of a
\* protected route on a verification made under the known default secret.
C12_MisconfiguredSecretFatal ==
  /\ \A t \in wallet : t.sig.key # DefaultSecret
  /\ \A r \in Requests :
       (AtHandler(reqs[r]) /\ ~MarkerTrue(reqs[r].route)) =>
         (~MisconfiguredSecret /\ VerifySecret # DefaultSecret)

----------------------------------------------------------------------------
\* the state part of C13: the result of getQuoteById for every id
C13_GetQuoteByIdState ==
  \A id \in 0 .. (MaxQuotes + 2) :
    IF \E q \in quotes : q.id = id
    THEN \E q \in quotes :
           q.id = id /\ getQuoteById(id) = [status |-> 200, body |-> Some(q)]
    ELSE /\ getQuoteById(id).status = 404
         /\ getQuoteById(id).body # None
         /\ The(getQuoteById(id).body).message = <<"Quote with", id, "not found">>

\* C13 -- getQuoteById(id) returns the stored quote with that id when one
\* exists and fails with NotFoundException ('Quote with <id> not found') for
\* every id without a stored quote, never answering null; the request that
\* calls it (GET /quotes/:id) is answered with exactly that result and leaves
\* the quote table and its id counter as they were.
C13_GetQuoteById ==
  /\ []C13_GetQuoteByIdState
  /\ [][ \A r \in Slots :
           ( /\ reqs[r].pc = "handler"
             /\ reqs[r].route.name = "GET /quotes/:id"
             /\ reqs'[r].pc = "done" ) =>
             /\ quotes' = quotes
             /\ nextQuoteId' = nextQuoteId
             /\ The(reqs'[r].resp).body # None
             /\ \E id \in QuoteIdInputs : reqs'[r].resp = Some(getQuoteById(id))
             /\ (Status(reqs'[r]) = 200) => (The(The(reqs'[r].resp).body) \in quotes)
             /\ Status(reqs'[r]) \in {200, 404}
       ]_vars

\* a request for a quote id that is not stored was answered 404 while another
\* quote is stored
C13_Witness ==
  \E r \in Slots :
    /\ reqs[r].route.name = "GET /quotes/:id"
    /\ reqs[r].pc = "done"
    /\ Status(reqs[r]) = 404
    /\ quotes # {}

\* a request for a stored quote was answered with it
C13_WitnessFound ==
  \E r \in Slots :
    /\ reqs[r].route.name = "GET /quotes/:id"
    /\ reqs[r].pc = "done"
    /\ Status(reqs[r]) = 200
    /\ The(The(reqs[r].resp).body) \in quotes

----------------------------------------------------------------------------
\* C14 -- updateQuote(body) with no id in the body fails with 'Missing id,
\* update not possible' and leaves the quote table unchanged; with the id of
\* an existing quote it overwrites in that row the fields the body carries,
\* leaves every other row alone, and returns the row as it is stored after
\* the update.
C14_UpdateQuote ==
  [][ \A r \in Slots :
        LET q == reqs[r]  n == reqs'[r] IN
        /\ \A body \in NewTextBodies :
             updateQuote(r, body) =>
               IF body.id = None
               THEN /\ n.pc = "done"
                    /\ n.err = Some("Missing id, update not possible")
                    /\ Status(n) = 500
                    /\ quotes' = quotes
               ELSE (\E row \in quotes : row.id = The(body.id)) =>
                      /\ n.pc = "reread"
                      /\ n.err = None
                      /\ \A row \in quotes :
                           IF row.id = The(body.id)
                           THEN [row EXCEPT !.quote = IF body.quote = None THEN row.quote
                                                      ELSE The(body.quote)] \in quotes'
                           ELSE row \in quotes'
                      /\ Cardinality(quotes') = Cardinality(quotes)
        /\ (q.pc = "reread" /\ n.pc = "done" /\ \E row \in quotes : row.id = The(q.arg)) =>
             /\ quotes' = quotes
             /\ Status(n) = 200
             /\ The(The(n.resp).body) \in quotes
             /\ The(The(n.resp).body).id = The(q.arg)
    ]_vars

\* an update without id failed while a quote is stored
C14_Witness ==
  \E r \in Slots :
    /\ reqs[r].route.name = "PATCH /quotes"
    /\ reqs[r].pc = "done"
    /\ reqs[r].err = Some("Missing id, update not possible")
    /\ quotes # {}

\* an update of an existing quote returned the row with the new text
C14_WitnessUpdated ==
  \E r \in Slots :
    /\ reqs[r].route.name = "PATCH /quotes"
    /\ reqs[r].pc = "done"
    /\ Status(reqs[r]) = 200
    /\ The(The(reqs[r].resp).body).quote \in UpdateTexts
    /\ The(The(reqs[r].resp).body) \in quotes

----------------------------------------------------------------------------
\* the identity the claims of a token stand for
ClaimsIdentity(t) == [userId |-> t.claims.sub, username |-> t.claims.username]

\* the state part of C15: a token the system issued is admitted on every
\* protected route until its expiry, whatever the user table holds
C15_StatelessState ==
  \A t \in wallet, route \in NoMarkerRoutes :
    LET g == canActivate(route, Bearer(t), now) IN
    /\ g.admit <=> (now < t.claims.exp)
    /\ g.admit => (g.user = Some(ClaimsIdentity(t)))

\* C15 -- Stateless token lifecycle: whether a token is accepted depends only
\* on its signature and the clock against its expiry: a token issued to a user
\* is admitted on protected routes until its expiry, also after that user was
\* updated or removed, and a token that verification accepted is rejected
\* afterwards only when the clock has moved to or past its expiry.
C15_StatelessLifecycle ==
  /\ []C15_StatelessState
  /\ [][ /\ \A t \in wallet :
              (verify(t, VerifySecret, now).ok /\ ~verify(t, VerifySecret', now').ok) =>
                (now' > now /\ now' >= t.claims.exp)
         /\ \A r \in Requests :
              LET q == reqs[r]  n == reqs'[r] IN
              ( /\ q.pc = "idle" /\ n.pc # "idle"
                /\ ~MarkerTrue(n.route)
                /\ \E t \in wallet : n.hdr = Bearer(t) /\ now < t.claims.exp ) =>
                (n.pc = "handler" /\ n.user = Some(ClaimsIdentity(The(n.hdr).cred)))
       ]_vars

\* a request bearing the token of a user who has since been removed is at the
\* handler of a protected route with that user's identity
C15_Witness ==
  \E r \in Requests, t \in wallet :
    /\ reqs[r].hdr = Bearer(t)
    /\ ~MarkerTrue(reqs[r].route)
    /\ reqs[r].pc = "handler"
    /\ reqs[r].user = Some(ClaimsIdentity(t))
    /\ \A u \in users : u.id # t.claims.sub

\* and one bearing the token of a user whose password has since been updated
C15_WitnessUpdated ==
  \E r \in Requests, t \in wallet, u \in users :
    /\ reqs[r].hdr = Bearer(t)
    /\ ~MarkerTrue(reqs[r].route)
    /\ reqs[r].pc = "handler"
    /\ u.id = t.claims.sub
    /\ u.password \in { Raw(p) : p \in Passwords }

----------------------------------------------------------------------------
\* C16 -- No authentication operation mutates the user store: every step of a
\* request (the JWT gate's decision, the lookup and comparison of
\* validateUser, successful or not, and login) leaves the set of user rows,
\* every field of each row and the id counter as they were; and login reads
\* no user row: the token it returns is built from the validated user the
\* request holds, the secret and the clock alone, whether or not that user is
\* still stored.
C16_AuthReadOnly ==
  [][ /\ (reqs' # reqs \/ wallet' # wallet) =>
           (users' = users /\ nextUserId' = nextUserId)
      /\ \A r \in Requests :
           LET q == reqs[r]  n == reqs'[r] IN
           (q.route = LoginRoute /\ q.pc = "handler" /\ n.pc = "done") =>
             /\ n.resp = Some(Ok(201, [access_token |->
                    sign([sub |-> The(q.user).id, username |-> The(q.user).userName],
                         SignSecret, now, TTL)]))
             /\ wallet' = Some(The(The(n.resp).body).access_token)
    ]_vars

\* validateUser has accepted the credentials of a login and the row it read is
\* stored as it was
C16_Witness ==
  \E r \in Requests :
    /\ reqs[r].route = LoginRoute
    /\ reqs[r].pc = "handler"
    /\ reqs[r].found # None
    /\ The(reqs[r].found) \in users

\* login returned a token for a user who is not stored
C16_WitnessNoRead ==
  \E r \in Requests :
    /\ reqs[r].route = LoginRoute
    /\ reqs[r].pc = "done"
    /\ Status(reqs[r]) = 201
    /\ wallet = Some(The(The(reqs[r].resp).body).access_token)
    /\ \A u \in users : u.id # The(reqs[r].user).id

----------------------------------------------------------------------------
\* what a login with this body comes to when it is handled alone: the user
\* validateUser returns for it against the store
SoloValidated(body) == validateUser(findByUsername(The(body).username), The(body).password)

\* the state part of C17: what a request holds is what it would hold alone
C17_OwnContext ==
  \A r \in Slots :
    LET q == reqs[r] IN
    /\ (q.route = LoginRoute /\ q.pc = "compare") =>
         q.found = findByUsername(The(q.body).username)
    /\ (q.route = LoginRoute /\ q.pc = "handler") =>
         (q.user = SoloValidated(q.body) /\ q.user # None)
    /\ (q.route = LoginRoute /\ q.pc = "done" /\ q.body # None) =>
         (SoloValidated(q.body) = None /\ q.resp = Some(TheUnauthorized))
    /\ (q.route # LoginRoute /\ q.pc = "handler") =>
         IF MarkerTrue(q.route) THEN q.user = None
         ELSE BearerSigned(q.hdr) /\ q.user = Some(ClaimsIdentity(The(q.hdr).cred))

\* C17 -- Request independence under interleaving: with two requests in
\* flight, interleaved at the lookup and the hash comparison, a step of one
\* request leaves the other's context untouched, and every request's outcome
\* is the one it has when handled alone against the same store, secret and
\* clock: the gate's decision and identity are those of its own route and
\* header, the validated user is the one of its own credentials, and the token
\* a login returns is issued for the user its own request holds.
C17_Independence ==
  /\ []C17_OwnContext
  /\ [][ \A r \in Slots :
           LET q == reqs[r]  n == reqs'[r] IN
           (n # q) =>
             /\ \A o \in Slots \ {r} : reqs'[o] = reqs[o]
             /\ (q.pc = "idle") =>
                  LET g == canActivate(n.route, n.hdr, now) IN
                  /\ n.user = g.user
                  /\ (n.pc = "done") <=> ~g.admit
                  /\ (n.pc = "done") => (n.resp = Some(TheUnauthorized))
             /\ (q.pc = "compare") =>
                  IF SoloValidated(q.body) = None
                  THEN n.pc = "done" /\ n.resp = Some(TheUnauthorized) /\ n.user = None
                  ELSE n.pc = "handler" /\ n.user = SoloValidated(q.body)
             /\ (q.pc = "handler" /\ q.route = LoginRoute) =>
                  /\ n.resp = Some(Ok(201, login(The(SoloValidated(q.body)), now)))
                  /\ n.user = q.user
       ]_vars

\* two logins of different users are in flight, one at its handler, the other
\* suspended at the hash comparison
C17_Witness ==
  /\ reqs["r1"].route = LoginRoute /\ reqs["r1"].pc = "handler"
  /\ reqs["r2"].route = LoginRoute /\ reqs["r2"].pc = "compare"
  /\ The(reqs["r1"].user).userName # The(reqs["r2"].body).username

\* a login was answered with its own user's token while another user's login
\* was at its handler
C17_WitnessBothValidated ==
  /\ reqs["r1"].route = LoginRoute /\ reqs["r1"].pc = "done" /\ Status(reqs["r1"]) = 201
  /\ reqs["r2"].route = LoginRoute /\ reqs["r2"].pc = "handler"
  /\ The(reqs["r1"].user).id # The(reqs["r2"].user).id
  /\ The(The(reqs["r1"].resp).body).access_token.claims.sub = The(reqs["r1"].user).id

----------------------------------------------------------------------------
\* C18 as claimed -- Create-then-login: after create(dto) succeeds, the stored
\* row's password is the bcrypt hash of dto.password and not the plaintext,
\* what create returns is the row without a password field, validateUser with
\* dto.userName and dto.password returns that user, and validateUser with
\* dto.userName and any password different from dto.password returns null.
C18_CreateThenLogin_Claimed ==
  [][ \A dto \in AnyPasswordDtos, salt \in Salts :
        create(dto, salt) =>
          LET row == CHOOSE u \in users' : u.userName = dto.userName
              found == (findByUsername(dto.userName))'
          IN  /\ found = Some(row)
              /\ row.password = bcrypt_hash(dto.password, BcryptRounds, salt)
              /\ row.password # Raw(dto.password)
              /\ "password" \notin DOMAIN safeUser(row)
              /\ validateUser(found, dto.password) = Some(safeUser(row))
              /\ \A p \in (AnyPasswords \cup {""}) \ {dto.password} :
                   validateUser(found, p) = None
    ]_vars

\* C18 -- Create-then-login, amended: after create(dto) succeeds, the stored
\* row's password is the bcrypt hash of dto.password and not the plaintext,
\* what create returns is the row without a password field, validateUser with
\* dto.userName and dto.password returns that user, and validateUser with
\* dto.userName and a password p returns null exactly when the first 72 bytes
\* of p differ from the first 72 bytes of dto.password.
C18_CreateThenLogin ==
  [][ \A dto \in AnyPasswordDtos, salt \in Salts :
        create(dto, salt) =>
          /\ \E row \in users' : row.userName = dto.userName
          /\ LET row == CHOOSE u \in users' : u.userName = dto.userName
                 found == (findByUsername(dto.userName))'
             IN  /\ found = Some(row)
                 /\ row.password = bcrypt_hash(dto.password, BcryptRounds, salt)
                 /\ row.password # Raw(dto.password)
                 /\ "password" \notin DOMAIN safeUser(row)
                 /\ DOMAIN safeUser(row) = DOMAIN row \ {"password"}
                 /\ \A f \in DOMAIN safeUser(row) : safeUser(row)[f] = row[f]
                 /\ validateUser(found, dto.password) = Some(safeUser(row))
                 /\ \A p \in AnyPasswords \cup {""} :
                      IF KeyBytes(p) = KeyBytes(dto.password)
                      THEN validateUser(found, p) = Some(safeUser(row))
                      ELSE validateUser(found, p) = None
    ]_vars

\* a login with the credentials a user was created with has been validated
\* while the user's row holds the hash create stored
C18_Witness ==
  \E r \in Requests, dto \in AnyPasswordDtos, salt \in Salts :
    /\ reqs[r].route = LoginRoute
    /\ reqs[r].pc = "handler"
    /\ reqs[r].body = Some([username |-> dto.userName, password |-> dto.password])
    /\ \E u \in users :
         /\ u.userName = dto.userName
         /\ u.password = bcrypt_hash(dto.password, BcryptRounds, salt)
         /\ reqs[r].user = Some(safeUser(u))

\* a login with a password that differs from the one the user was created
\* with was rejected
C18_WitnessRejected ==
  \E r \in Requests, dto \in AnyPasswordDtos, salt \in Salts :
    /\ reqs[r].route = LoginRoute
    /\ reqs[r].pc = "done"
    /\ Status(reqs[r]) = 401
    /\ reqs[r].body # None
    /\ The(reqs[r].body).username = dto.userName
    /\ KeyBytes(The(reqs[r].body).password) # KeyBytes(dto.password)
    /\ reqs[r].found = { u \in users : u.userName = dto.userName }
    /\ \E u \in users :
         u.userName = dto.userName /\ u.password = bcrypt_hash(dto.password, BcryptRounds, salt)

----------------------------------------------------------------------------
\* C19 -- Stored-hash invariant: whatever create, update and remove
\* operations have run, the password column of every stored user is a bcrypt
\* hash output, never a plaintext a caller supplied, and every stored user can
\* log in: some password passes validateUser for them, the one most recently
\* set.
C19_StoredHash ==
  \A u \in users :
    /\ u.password.alg = "2b"
    /\ u.password \notin { Raw(p) : p \in Passwords }
    /\ \E p \in Passwords : validateUser(Some(u), p) # None

====
